---- MODULE Spec2Model ----
(***************************************************************************)
(* A model of modules/serial_handler.py (SerialHandler) and of the part of *)
(* modules/flasher.py (Flasher.flash_firmware_thread) that shares the      *)
(* serial port with it.                                                    *)
(*                                                                         *)
(*   SpecCodec  one connection with one read loop: chunks of bytes arrive  *)
(*              and are passed to handle_incoming_data                     *)
(*   SpecEnc    the encoder: write_to_serial, write_to_serial_with_size,   *)
(*              send_command on a port that is open, closed or absent      *)
(*   Spec       the threads: discovery loop, read loops, flasher, GUI      *)
(*                                                                         *)
(* Bytes are the integers 0..255, strings handed to the log sink are       *)
(* sequences of code points.                                               *)
(***************************************************************************)
EXTENDS Integers, Sequences, FiniteSets, TLC

VARIABLES
    \* SerialHandler fields (serial_handler.py 19-34)
    is_connected, serial_open, serial_connection, current_mode, com_port,
    com_speed, monitoring_active, monitoring_thread, serial_thread, buffer,
    lock, is_flashing,
    \* Flasher.is_flashing (flasher.py 26)
    fl_is_flashing,
    \* the serial.Serial objects made so far, and the frames written to the port
    ports, tx,
    \* the log sink: the decoded frames, in order, and the diagnostic lines
    log, notes,
    \* the threads: each one's stack of program points and its locals
    th,
    \* the environment: which registered devices are attached, and whether
    \* their ports are held by another program; the status the window shows
    attached, port_busy, mcu_status,
    \* user operations, chunk reads and input/output faults so far (bounded)
    guiOps, reads, faults,
    \* history: the bytes read on the connection, the last parse pass, the
    \* stream position of every emitted frame, the last encoder call
    rx, pass, emitted, lastOp

codecVars == <<buffer, log, rx, pass, emitted>>
encVars == <<tx, notes, lastOp>>
handlerVars == <<is_connected, serial_open, serial_connection, current_mode, com_port,
                 com_speed, monitoring_active, monitoring_thread, serial_thread,
                 lock, is_flashing, fl_is_flashing, ports>>
threadVars == <<th, attached, port_busy, mcu_status, guiOps, reads, faults>>
vars == <<codecVars, encVars, handlerVars, threadVars>>

----------------------------------------------------------------------------
(* Bounds *)

\* bytes received on one connection in SpecCodec
MaxStream == 5
\* bytes of one payload handed to the encoder in SpecEnc
MaxPayload == 2
\* encoder calls in one behaviour of SpecEnc
MaxWrites == 1
\* serial.Serial objects made in one behaviour
MaxPorts == 2
\* discovery-loop threads, read-loop threads and flasher threads alive or
\* finished in one behaviour
MaxMon == 2
MaxSer == 2
MaxFl == 2
\* chunks read from the port in one behaviour of Spec
MaxReads == 2
\* user operations (flash, log level) in one behaviour of Spec
MaxGuiOps == 1
\* failures of the port or of a subprocess launch in one behaviour of Spec
MaxFaults == 1

----------------------------------------------------------------------------
(* Threads, ports, devices *)

None == 0
Free == -1

GUI == 0
MonIds == 1..MaxMon
SerIds == 11..(10 + MaxSer)
FlIds == 21..(20 + MaxFl)
Tids == {GUI} \cup MonIds \cup SerIds \cup FlIds

PortIds == 1..MaxPorts

\* KNOWN_DEVICES, in table order; a device's port is named after its mode
KNOWN_DEVICES == <<[vid |-> "1A86", pid |-> "55D3", mode |-> "Normal"],
                   [vid |-> "303A", pid |-> "0009", mode |-> "Flash"]>>

GET_BAUD_RATE == 164
SET_BAUD_RATE == 165
GET_DEV_LOG == 166
SET_DEV_LOG == 167
LOG_HOST_TOGGLE == 150
RESET == 129

\* a thread that was never started, and one that has returned
Unborn == <<"none">>
Dead == <<"done">>

NoThread == [pc |-> Unborn, attempt |-> 0, com_port |-> "", mode |-> "",
             data |-> <<>>, conn |-> None, off |-> 0]

\* the status label before the first call of the status callback
NoStatus == [text |-> "", by |-> None]

NoPort == [made |-> FALSE, is_open |-> FALSE, baudrate |-> 0, port |-> ""]

----------------------------------------------------------------------------
(* Bytes and byte strings *)

CR == 13
KmHeader == <<107, 109, 46>>
DeadHeader == <<222, 173>>

\* the bytes the model feeds to the decoder: 'k' 'm' '.' '\r' 0xDE 0xAD 0x00 0x01
Alphabet == {107, 109, 46, 13, 222, 173, 0, 1}

Min(a, b) == IF a <= b THEN a ELSE b

SeqsUpTo(S, n) == UNION {[1..k -> S] : k \in 1..n}

\* Python's data[a:b], 0-based, clamped to the sequence
Slice(data, a, b) ==
    LET hi == Min(b, Len(data))
    IN  IF a >= hi THEN <<>> ELSE [i \in 1..(hi - a) |-> data[a + i]]

\* Python's data.find(pat, from): the 0-based index of the first occurrence
\* at or after from, or -1
Find(data, pat, from) ==
    LET hits == {i \in from..(Len(data) - Len(pat)) : Slice(data, i, i + Len(pat)) = pat}
    IN  IF hits = {} THEN -1 ELSE CHOOSE i \in hits : \A j \in hits : i <= j

\* bytes.decode('utf-8', errors='ignore') for bytes below 0xE0: an ASCII byte is
\* its own code point, a lead byte C2..DF followed by a continuation byte
\* 80..BF is one code point, any other byte is dropped
RECURSIVE Utf8From(_, _)
Utf8From(bs, i) ==
    IF i > Len(bs) THEN <<>>
    ELSE IF bs[i] < 128 THEN <<bs[i]>> \o Utf8From(bs, i + 1)
    ELSE IF /\ bs[i] >= 194 /\ bs[i] <= 223
            /\ i + 1 <= Len(bs) /\ bs[i + 1] >= 128 /\ bs[i + 1] <= 191
         THEN <<(bs[i] - 192) * 64 + (bs[i + 1] - 128)>> \o Utf8From(bs, i + 2)
    ELSE Utf8From(bs, i + 1)

DecodeIgnore(bs) == Utf8From(bs, 1)

\* str.encode('utf-8') for code points below 0x800
RECURSIVE Utf8Encode(_)
Utf8Encode(s) ==
    IF s = <<>> THEN <<>>
    ELSE (IF Head(s) < 128 THEN <<Head(s)>>
          ELSE <<192 + (Head(s) \div 64), 128 + (Head(s) % 64)>>) \o Utf8Encode(Tail(s))

----------------------------------------------------------------------------
(* The decoder: parse_uart_frames and handle_incoming_data *)

TextFrameEnd_withoutCR(end_index) == end_index

\* the end of the slice of a text frame whose '\r' is at end_index: the frame
\* includes the '\r' (line 180)
TextFrameEnd(end_index) == end_index + 1

FrameSize_bigEndian(data, index) == 256 * data[index + 3] + data[index + 4]

\* struct.unpack('<H', data[index + 2:index + 4])[0] (line 189)
FrameSize(data, index) == data[index + 3] + 256 * data[index + 4]

SearchFrom_skipOne(index) == index + 2

\* where the search for the next header starts when index holds none (207-208)
SearchFrom(index) == index + 1

\* the header the scan jumps to when both kinds follow (line 219)
ClosestHeader(next_km, next_dead) == Min(next_km, next_dead)

\* The scan of parse_uart_frames from index: the frames handed to the log sink
\* (at: where the frame starts in data), the index where the scan stopped and
\* why: "end" (index reached len(data)), "partial" (a break on an incomplete
\* frame), "nohdr" (a break because no header follows)
RECURSIVE ParseFrom(_, _)
ParseFrom(data, index) ==
    IF index >= Len(data) THEN [frames |-> <<>>, stop |-> index, why |-> "end"]
    ELSE IF Slice(data, index, index + 3) = KmHeader THEN
        LET end_index == Find(data, <<CR>>, index) IN
        IF end_index # -1
        THEN LET r == ParseFrom(data, end_index + 1)
             IN  [r EXCEPT !.frames =
                    <<[at |-> index, kind |-> "text", next |-> end_index + 1,
                       line |-> DecodeIgnore(Slice(data, index, TextFrameEnd(end_index)))]>> \o @]
        ELSE [frames |-> <<>>, stop |-> index, why |-> "partial"]
    ELSE IF Slice(data, index, index + 2) = DeadHeader THEN
        IF index + 4 <= Len(data) THEN
            LET size == FrameSize(data, index)
                end_index == index + 4 + size IN
            IF end_index <= Len(data)
            THEN LET r == ParseFrom(data, end_index)
                 IN  [r EXCEPT !.frames =
                        <<[at |-> index, kind |-> "binary", next |-> end_index,
                           line |-> DecodeIgnore(Slice(data, index + 4, end_index))]>> \o @]
            ELSE [frames |-> <<>>, stop |-> index, why |-> "partial"]
        ELSE [frames |-> <<>>, stop |-> index, why |-> "partial"]
    ELSE
        LET next_km == Find(data, KmHeader, SearchFrom(index))
            next_dead == Find(data, DeadHeader, SearchFrom(index)) IN
        IF next_km = -1 /\ next_dead = -1
        THEN [frames |-> <<>>, stop |-> index, why |-> "nohdr"]
        ELSE ParseFrom(data, IF next_km = -1 THEN next_dead
                             ELSE IF next_dead = -1 THEN next_km
                             ELSE ClosestHeader(next_km, next_dead))

parse_uart_frames(data) == ParseFrom(data, 0)

\* the loop of parse_uart_frames left by a break
Break == -1

BinaryFrameEnd_noHeader(index, size) == index + size

\* end_index of a binary frame (line 190)
BinaryFrameEnd(index, size) == index + 4 + size

\* one iteration of the loop of parse_uart_frames (lines 175-219) at index,
\* index < len(data): the value of index after it, or Break
NextIndex(data, index) ==
    IF Slice(data, index, index + 3) = KmHeader THEN
        LET end_index == Find(data, <<CR>>, index)
        IN  IF end_index # -1 THEN end_index + 1 ELSE Break
    ELSE IF Slice(data, index, index + 2) = DeadHeader THEN
        IF index + 4 <= Len(data)
        THEN LET end_index == BinaryFrameEnd(index, FrameSize(data, index))
             IN  IF end_index <= Len(data) THEN end_index ELSE Break
        ELSE Break
    ELSE
        LET next_km == Find(data, KmHeader, SearchFrom(index))
            next_dead == Find(data, DeadHeader, SearchFrom(index))
        IN  IF next_km = -1 /\ next_dead = -1 THEN Break
            ELSE IF next_km = -1 THEN next_dead
            ELSE IF next_dead = -1 THEN next_km
            ELSE ClosestHeader(next_km, next_dead)

\* the iterations the loop makes from index, counted up to most
RECURSIVE Iterations(_, _, _)
Iterations(data, index, most) ==
    IF index >= Len(data) \/ most = 0 THEN 0
    ELSE LET n == NextIndex(data, index)
         IN  IF n = Break THEN 1 ELSE 1 + Iterations(data, n, most - 1)

\* where the loop stops, following it for at most most iterations
RECURSIVE LoopStop(_, _, _)
LoopStop(data, index, most) ==
    IF index >= Len(data) \/ most = 0 THEN index
    ELSE LET n == NextIndex(data, index)
         IN  IF n = Break THEN index ELSE LoopStop(data, n, most - 1)

Lines(frames) == [i \in 1..Len(frames) |-> frames[i].line]

BufferAfterPass_keepsAll(buf, r) == buf

\* the finally clause of handle_incoming_data: the buffer is replaced by an
\* empty one, whatever the parse pass consumed
BufferAfterPass(buf, r) == <<>>

\* handle_incoming_data(data), called with the lock held throughout; conn and
\* off say where data was read (the port object and the offset in its stream)
handle_incoming_data(data, conn, off) ==
    LET buf == buffer \o data
        r == parse_uart_frames(buf)
    IN  /\ log' = log \o Lines(r.frames)
        /\ buffer' = BufferAfterPass(buf, r)
        /\ pass' = [data |-> buf, frames |-> r.frames, stop |-> r.stop, why |-> r.why]
        /\ emitted' = emitted \o [i \in 1..Len(r.frames) |->
                                    [conn |-> conn, pos |-> off - Len(buffer) + r.frames[i].at]]

----------------------------------------------------------------------------
(* The encoder: write_to_serial, write_to_serial_with_size, send_command *)

PortIsOpen == serial_connection # None /\ ports[serial_connection].is_open

SizeBytes_bigEndian(size) == <<(size \div 256) % 256, size % 256>>

\* lsb = size & 0xFF, msb = (size >> 8) & 0xFF, sent as bytes([lsb, msb])
SizeBytes(size) == <<size % 256, (size \div 256) % 256>>

\* a str argument is encoded, a bytes argument is taken as it is
AsBytes(data) == IF data.type = "str" THEN Utf8Encode(data.v) ELSE data.v

\* write_to_serial(data); ok: whether serial_connection.write returns or raises
write_to_serial(data, ok) ==
    IF ~PortIsOpen
    THEN /\ notes' = notes \cup {"Attempted to write but serial is not open."}
         /\ tx' = tx
    ELSE LET bytes == AsBytes(data)
             payload == DeadHeader \o SizeBytes(Len(bytes)) \o bytes
         IN  IF ok
             THEN /\ tx' = Append(tx, [conn |-> serial_connection, bytes |-> payload,
                                       baud |-> ports[serial_connection].baudrate])
                  /\ notes' = notes \cup {"TX (auto-size)"}
             ELSE /\ tx' = tx
                  /\ notes' = notes \cup {"TX (auto-size)", "Error while writing to serial"}

\* write_to_serial_with_size(size, data)
write_to_serial_with_size(size, data, ok) ==
    IF ~PortIsOpen
    THEN /\ notes' = notes \cup {"Attempted to write but serial is not open."}
         /\ tx' = tx
    ELSE LET bytes == AsBytes(data)
             payload == DeadHeader \o SizeBytes(size) \o bytes
         IN  IF ok
             THEN /\ tx' = Append(tx, [conn |-> serial_connection, bytes |-> payload,
                                       baud |-> ports[serial_connection].baudrate])
                  /\ notes' = notes \cup {"TX (explicit-size)"}
             ELSE /\ tx' = tx
                  /\ notes' = notes \cup {"TX (explicit-size)", "Error while writing to serial"}

send_command_sizeOfPayload(command, payload, ok) ==
    write_to_serial_with_size(Len(payload),
                              [type |-> "bytes", v |-> <<command>> \o payload], ok)

\* send_command(command, payload)
send_command(command, payload, ok) ==
    write_to_serial_with_size(Len(payload) + 1,
                              [type |-> "bytes", v |-> <<command>> \o payload], ok)

ValidBaudRate_any(baud_rate) == baud_rate \in {9600, 115200, 4000000}

\* the test of line 357: baud_rate in [115200, 4000000]
ValidBaudRate(baud_rate) == baud_rate \in {115200, 4000000}

BaudPayload_115200(baud_rate) == <<0, 0, 194, 1>>

\* the payload of line 362
BaudPayload(baud_rate) == IF baud_rate = 4000000 THEN <<0, 9, 61, 0>> ELSE <<0, 0, 194, 1>>

\* set_baud_rate(baud_rate), run without another thread in between
set_baud_rate(baud_rate, ok) ==
    IF ~ValidBaudRate(baud_rate)
    THEN /\ notes' = notes \cup {"Invalid baud rate."}
         /\ UNCHANGED <<tx, ports, com_speed>>
    ELSE /\ send_command(SET_BAUD_RATE, BaudPayload(baud_rate), ok)
         /\ IF PortIsOpen
            THEN /\ ports' = [ports EXCEPT ![serial_connection].baudrate = baud_rate]
                 /\ com_speed' = baud_rate
            ELSE UNCHANGED <<ports, com_speed>>

----------------------------------------------------------------------------
(* The state after SerialHandler.__init__ and Flasher.__init__ *)

InitHandler ==
    /\ is_connected = FALSE /\ serial_open = FALSE /\ serial_connection = None
    /\ current_mode = "Normal" /\ com_port = "" /\ com_speed = 115200
    /\ monitoring_active = FALSE /\ monitoring_thread = None /\ serial_thread = None
    /\ buffer = <<>> /\ lock = Free /\ is_flashing = FALSE /\ fl_is_flashing = FALSE
    /\ ports = [h \in PortIds |-> NoPort]

InitHistory ==
    /\ log = <<>> /\ notes = {} /\ tx = <<>> /\ rx = <<>> /\ emitted = <<>>
    /\ pass = [data |-> <<>>, frames |-> <<>>, stop |-> 0, why |-> "end"]
    /\ lastOp = [op |-> "none"]
    /\ guiOps = 0 /\ reads = 0 /\ faults = 0

\* a handler connected to port object 1 in the given mode, as auto_connect
\* leaves it, with one read loop (thread 11) at the top of its loop
Connected(mode) ==
    /\ is_connected = TRUE /\ serial_open = TRUE /\ serial_connection = 1
    /\ current_mode = mode /\ com_port = mode
    /\ com_speed = IF mode = "Normal" THEN 4000000 ELSE 115200
    /\ monitoring_active = TRUE /\ monitoring_thread = 1 /\ serial_thread = 11
    /\ buffer = <<>> /\ lock = Free /\ is_flashing = FALSE /\ fl_is_flashing = FALSE
    /\ ports = [h \in PortIds |-> IF h = 1
                    THEN [made |-> TRUE, is_open |-> TRUE, baudrate |-> com_speed, port |-> mode]
                    ELSE NoPort]
    /\ th = [t \in Tids |-> IF t = 1 THEN [NoThread EXCEPT !.pc = <<"m_loop">>]
                             ELSE IF t = 11 THEN [NoThread EXCEPT !.pc = <<"s_loop">>, !.conn = 1]
                             ELSE IF t = GUI THEN [NoThread EXCEPT !.pc = <<"g_idle">>]
                             ELSE NoThread]
    /\ attached = {mode} /\ port_busy = FALSE
    /\ mcu_status = [text |-> "MCU connected", by |-> 1]

----------------------------------------------------------------------------
(* SpecCodec: the read loop of one connection *)

InitCodec == Connected("Normal") /\ InitHistory

\* "km.move(1,2)\r" and DE AD 03 00 'a' 'b' 'c'
SampleText == <<107, 109, 46, 109, 111, 118, 101, 40, 49, 44, 50, 41, 13>>
SampleBinary == <<222, 173, 3, 0, 97, 98, 99>>

\* longer streams than MaxStream allows: a text frame, a text frame after two
\* bytes of garbage, a binary frame followed by one more byte, a text frame
\* that holds DE AD after one byte of garbage
Samples == {SampleText, <<0, 1>> \o SampleText, SampleBinary \o <<120>>,
            <<1, 107, 109, 46, 222, 173, 13>>}

\* the chunks that continue a sample stream of which rx is the start
SampleChunks ==
    UNION {{Slice(s, Len(rx), k) : k \in (Len(rx) + 1)..Len(s)} :
           s \in {x \in Samples : Slice(x, 0, Len(rx)) = rx}}

\* one turn of the read loop that finds bytes waiting (lines 152-160): it
\* reads them all and hands them to handle_incoming_data
CodecReceive ==
    /\ lock = Free
    /\ \E data \in SeqsUpTo(Alphabet, MaxStream - Len(rx)) \cup SampleChunks :
        /\ rx' = rx \o data
        /\ handle_incoming_data(data, serial_connection, Len(rx))
    /\ UNCHANGED <<encVars, handlerVars, threadVars>>

NextCodec == CodecReceive

SpecCodec == InitCodec /\ [][NextCodec]_vars

----------------------------------------------------------------------------
(* SpecEnc: calls of the encoder *)

EncBytes == {4, 173}
EncChars == {97, 233}
Opcodes == {GET_BAUD_RATE, SET_BAUD_RATE, GET_DEV_LOG, SET_DEV_LOG, LOG_HOST_TOGGLE, RESET}

EncInputs ==
    {[type |-> "bytes", v |-> v] : v \in {<<>>} \cup SeqsUpTo(EncBytes, MaxPayload)}
    \cup {[type |-> "str", v |-> v] : v \in SeqsUpTo(EncChars, MaxPayload)}

\* the handler with no port object, with a closed one, or with an open one
InitEnc ==
    /\ InitHistory
    /\ \/ Connected("Normal")
       \/ /\ is_connected = FALSE /\ serial_open = FALSE
          /\ current_mode = "Normal" /\ com_port = "" /\ com_speed = 115200
          /\ monitoring_active = FALSE /\ monitoring_thread = None /\ serial_thread = None
          /\ buffer = <<>> /\ lock = Free /\ is_flashing = FALSE /\ fl_is_flashing = FALSE
          /\ \E made \in BOOLEAN :
                /\ ports = [h \in PortIds |-> IF h = 1 /\ made
                               THEN [made |-> TRUE, is_open |-> FALSE, baudrate |-> 115200,
                                     port |-> "Normal"]
                               ELSE NoPort]
                /\ serial_connection = IF made THEN 1 ELSE None
          /\ th = [t \in Tids |-> IF t = GUI THEN [NoThread EXCEPT !.pc = <<"g_idle">>]
                                   ELSE NoThread]
          /\ attached = {} /\ port_busy = FALSE /\ mcu_status = NoStatus

EncWrite ==
    /\ guiOps < MaxWrites
    /\ guiOps' = guiOps + 1
    /\ \E data \in EncInputs, ok \in BOOLEAN :
        /\ write_to_serial(data, ok)
        /\ lastOp' = [op |-> "write_to_serial", data |-> data, open |-> PortIsOpen,
                      ok |-> ok, before |-> Len(tx)]
    /\ UNCHANGED <<codecVars, handlerVars, th, attached, port_busy, mcu_status, reads, faults>>

EncSendCommand ==
    /\ guiOps < MaxWrites
    /\ guiOps' = guiOps + 1
    /\ \E command \in Opcodes, payload \in {<<>>} \cup SeqsUpTo(EncBytes, MaxPayload),
          ok \in BOOLEAN :
        /\ send_command(command, payload, ok)
        /\ lastOp' = [op |-> "send_command", command |-> command, payload |-> payload,
                      open |-> PortIsOpen, ok |-> ok, before |-> Len(tx)]
    /\ UNCHANGED <<codecVars, handlerVars, th, attached, port_busy, mcu_status, reads, faults>>

\* the rates a caller may pass: the two supported ones and one that is not
BaudInputs == {9600, 115200, 4000000}

EncSetBaudRate ==
    /\ guiOps < MaxWrites
    /\ guiOps' = guiOps + 1
    /\ \E baud_rate \in BaudInputs, ok \in BOOLEAN :
        /\ set_baud_rate(baud_rate, ok)
        /\ lastOp' = [op |-> "set_baud_rate", baud_rate |-> baud_rate, open |-> PortIsOpen,
                      ok |-> ok, before |-> Len(tx), ports |-> ports, com_speed |-> com_speed]
    /\ UNCHANGED <<codecVars, is_connected, serial_open, serial_connection, current_mode,
                   com_port, monitoring_active, monitoring_thread, serial_thread, lock,
                   is_flashing, fl_is_flashing, th, attached, port_busy, mcu_status, reads,
                   faults>>

NextEnc == EncWrite \/ EncSendCommand \/ EncSetBaudRate

SpecEnc == InitEnc /\ [][NextEnc]_vars

----------------------------------------------------------------------------
(* Spec: the threads.  A thread is a stack of program points (the head is   *)
(* where it is, the rest where the calls it is in return to) and locals.    *)

retry_attempts == 5

\* the one chunk the device sends in Spec: the text frame "km.\r"
ThreadChunks == {<<107, 109, 46, 13>>}

Alive(t) == th[t].pc # Unborn /\ th[t].pc # Dead
At(t, l) == Head(th[t].pc) = l

\* the thread table after t moves to l, returns (its locals are gone), or calls
\* callee to come back at cont
Jump(t, l) == [th EXCEPT ![t].pc = <<l>> \o Tail(@)]
Ret(t) == [th EXCEPT ![t] = [NoThread EXCEPT !.pc = IF Len(th[t].pc) = 1 THEN Dead ELSE Tail(th[t].pc)]]
Call(t, callee, cont) == [th EXCEPT ![t].pc = <<callee, cont>> \o Tail(@)]

\* the lowest thread id of a pool that is not running, or None
FreeIn(ids) ==
    IF \A i \in ids : Alive(i) THEN None
    ELSE CHOOSE i \in ids : ~Alive(i) /\ \A j \in ids : ~Alive(j) => i <= j

FreePort ==
    IF \A h \in PortIds : ports[h].made THEN None
    ELSE CHOOSE h \in PortIds : ~ports[h].made /\ \A j \in PortIds : ~ports[j].made => h <= j

FirstMatch_last ==
    LET hits == {i \in 1..Len(KNOWN_DEVICES) : KNOWN_DEVICES[i].mode \in attached}
    IN  IF hits = {} THEN None ELSE CHOOSE i \in hits : \A j \in hits : i >= j

\* find_com_port for the first entry of KNOWN_DEVICES that is attached, or None
FirstMatch ==
    LET hits == {i \in 1..Len(KNOWN_DEVICES) : KNOWN_DEVICES[i].mode \in attached}
    IN  IF hits = {} THEN None ELSE CHOOSE i \in hits : \A j \in hits : i <= j

\* the lines of the log sink that the model records
Recorded == {"Failed to fully stop monitoring thread.", "Serial monitoring stopped.",
             "Serial monitoring is already active.", "Serial monitoring is not active.",
             "Invalid log level.", "Unable to connect", "Failed to switch baud rate"}

\* a write on the open port raises only while the faults of the behaviour last
WriteFault(ok) ==
    /\ ~ok => PortIsOpen /\ faults < MaxFaults
    /\ faults' = IF ok THEN faults ELSE faults + 1

\* send_command -> write_to_serial_with_size, lines 319-321: the test of
\* the port; a thread that passes it goes on to the write with the command
\* and its payload in hand, otherwise the refusal is logged and it goes to cont
BeginWrite(t, command, payload, cont) ==
    IF PortIsOpen
    THEN /\ th' = [th EXCEPT ![t].pc = <<"w_write">> \o cont,
                             ![t].data = <<command>> \o payload]
         /\ UNCHANGED <<tx, notes>>
    ELSE /\ send_command(command, payload, TRUE)
         /\ th' = [th EXCEPT ![t].pc = cont]

\* write_to_serial_with_size, lines 323-335: the frame is built, logged and
\* written; no lock is held.  If the port was closed or dropped since the
\* test, write() raises, which is logged like any other write error
w_write(t) ==
    /\ At(t, "w_write")
    /\ IF PortIsOpen
       THEN \E ok \in BOOLEAN :
               /\ send_command(Head(th[t].data), Tail(th[t].data), ok)
               /\ WriteFault(ok)
       ELSE /\ notes' = notes \cup {"TX (explicit-size)", "Error while writing to serial"}
            /\ UNCHANGED <<tx, faults>>
    /\ th' = [th EXCEPT ![t].pc = Tail(@), ![t].data = <<>>]
    /\ UNCHANGED <<handlerVars, attached, port_busy, mcu_status, guiOps, reads, codecVars, lastOp>>

update_mcu_status_notCalled(t, connected) == UNCHANGED mcu_status

\* update_mcu_status called by thread t: the label shows whether the handler
\* is connected at that moment
update_mcu_status(t, connected) ==
    mcu_status' = [text |-> IF connected THEN "MCU connected" ELSE "MCU disconnected",
                   by |-> t]

Say(line) == notes' = IF line \in Recorded THEN notes \cup {line} ELSE notes

\* start_monitoring (45-55), all of it under the lock
start_monitoring(t) ==
    /\ At(t, "start_mon")
    /\ lock = Free
    /\ IF monitoring_active
       THEN /\ Say("Serial monitoring is already active.")
            /\ th' = Ret(t)
            /\ UNCHANGED <<monitoring_active, monitoring_thread>>
       ELSE /\ FreeIn(MonIds) # None
            /\ monitoring_active' = TRUE
            /\ monitoring_thread' = FreeIn(MonIds)
            /\ th' = [Ret(t) EXCEPT ![FreeIn(MonIds)] = [NoThread EXCEPT !.pc = <<"m_loop">>]]
            /\ Say("Started serial monitoring.")
    /\ UNCHANGED <<is_connected, serial_open, serial_connection, ports, current_mode, com_port,
                   com_speed, serial_thread, lock, is_flashing, fl_is_flashing, attached, port_busy, mcu_status,
                   guiOps, reads, faults, codecVars, tx, lastOp>>

\* stop_monitoring, the part under the lock (59-65)
sm_lock(t) ==
    /\ At(t, "sm_lock")
    /\ lock = Free
    /\ IF ~monitoring_active
       THEN /\ Say("Serial monitoring is not active.")
            /\ th' = Ret(t)
            /\ UNCHANGED monitoring_active
       ELSE /\ monitoring_active' = FALSE
            /\ Say("Stopping serial monitoring...")
            /\ th' = Jump(t, "sm_check")
    /\ UNCHANGED <<is_connected, serial_open, serial_connection, ports, current_mode, com_port,
                   com_speed, monitoring_thread, serial_thread, lock, is_flashing,
                   fl_is_flashing, attached, port_busy, mcu_status, guiOps, reads, faults, codecVars, tx, lastOp>>

\* stop_monitoring, line 67-68
sm_check(t) ==
    /\ At(t, "sm_check")
    /\ th' = IF PortIsOpen THEN Call(t, "cc_check", "sm_join") ELSE Jump(t, "sm_join")
    /\ UNCHANGED <<handlerVars, attached, port_busy, mcu_status, guiOps, reads, faults, codecVars, encVars>>

\* stop_monitoring, line 70: is there a live discovery thread to join
sm_join(t) ==
    /\ At(t, "sm_join")
    /\ th' = IF monitoring_thread # None /\ Alive(monitoring_thread)
             THEN Jump(t, "sm_wait") ELSE Ret(t)
    /\ UNCHANGED <<handlerVars, attached, port_busy, mcu_status, guiOps, reads, faults, codecVars, encVars>>

\* stop_monitoring, lines 71-75: join(timeout=5) returns because the thread
\* has ended or because the timeout has passed
sm_wait(t) ==
    /\ At(t, "sm_wait")
    /\ \/ /\ ~(monitoring_thread # None /\ Alive(monitoring_thread))
          /\ Say("Serial monitoring stopped.")
       \/ /\ monitoring_thread # None /\ Alive(monitoring_thread)
          /\ Say("Failed to fully stop monitoring thread.")
    /\ th' = Ret(t)
    /\ UNCHANGED <<handlerVars, attached, port_busy, mcu_status, guiOps, reads, faults, codecVars, tx, lastOp>>

\* close() of the open port raises (263-264, 249-250): the error is logged
\* and the port stays as it was
CloseRaises ==
    /\ PortIsOpen
    /\ faults < MaxFaults
    /\ faults' = faults + 1
    /\ Say("Error closing serial connection")
    /\ UNCHANGED ports

\* close_connection, line 259
cc_check(t) ==
    /\ At(t, "cc_check")
    /\ th' = IF PortIsOpen THEN Jump(t, "cc_close") ELSE Jump(t, "cc_fin")
    /\ UNCHANGED <<handlerVars, attached, port_busy, mcu_status, guiOps, reads, faults, codecVars, encVars>>

\* close_connection, lines 260-264: after the sleep, close(); the field may be
\* None by now, which raises and is caught
cc_close(t) ==
    /\ At(t, "cc_close")
    /\ \/ /\ serial_connection = None
          /\ Say("Error while closing serial connection")
          /\ UNCHANGED <<ports, faults>>
       \/ /\ serial_connection # None
          /\ ports' = [ports EXCEPT ![serial_connection].is_open = FALSE]
          /\ Say("Serial connection closed.")
          /\ UNCHANGED faults
       \/ CloseRaises
    /\ th' = Jump(t, "cc_fin")
    /\ UNCHANGED <<is_connected, serial_open, serial_connection, current_mode, com_port,
                   com_speed, monitoring_active, monitoring_thread, serial_thread, lock,
                   is_flashing, fl_is_flashing, attached, port_busy, mcu_status, guiOps, reads, codecVars,
                   tx, lastOp>>

\* close_connection, the finally clause (265-269), the status callback included
cc_fin(t) ==
    /\ At(t, "cc_fin")
    /\ serial_connection' = None
    /\ is_connected' = FALSE
    /\ serial_open' = FALSE
    /\ th' = Ret(t)
    /\ update_mcu_status(t, FALSE)
    /\ UNCHANGED <<ports, current_mode, com_port, com_speed, monitoring_active,
                   monitoring_thread, serial_thread, lock, is_flashing, fl_is_flashing,
                   attached, port_busy, guiOps, reads, faults, codecVars, encVars>>

\* handle_disconnect, lines 240-242
hd_flags(t) ==
    /\ At(t, "hd_flags")
    /\ is_connected' = FALSE
    /\ serial_open' = FALSE
    /\ Say("Device disconnected.")
    /\ th' = Jump(t, "hd_close")
    /\ UNCHANGED <<serial_connection, ports, current_mode, com_port, com_speed,
                   monitoring_active, monitoring_thread, serial_thread, lock, is_flashing,
                   fl_is_flashing, attached, port_busy, mcu_status, guiOps, reads, faults, codecVars, tx, lastOp>>

\* handle_disconnect, lines 244-250: close() on the handle, if there is one;
\* if there is none, the status callback (254) and the return
hd_close(t) ==
    /\ At(t, "hd_close")
    /\ \/ /\ PortIsOpen
          /\ ports' = [ports EXCEPT ![serial_connection].is_open = FALSE]
          /\ Say("Serial connection closed.")
          /\ UNCHANGED faults
       \/ /\ ~PortIsOpen
          /\ UNCHANGED <<ports, notes, faults>>
       \/ CloseRaises
    /\ th' = IF serial_connection # None THEN Jump(t, "hd_none") ELSE Ret(t)
    /\ IF serial_connection # None THEN UNCHANGED mcu_status
       ELSE update_mcu_status(t, is_connected)
    /\ UNCHANGED <<is_connected, serial_open, serial_connection, current_mode, com_port,
                   com_speed, monitoring_active, monitoring_thread, serial_thread, lock,
                   is_flashing, fl_is_flashing, attached, port_busy, guiOps, reads, codecVars,
                   tx, lastOp>>

hd_none_keepsHandle(t) ==
    /\ At(t, "hd_none")
    /\ th' = Ret(t)
    /\ update_mcu_status(t, is_connected)
    /\ UNCHANGED <<handlerVars, attached, port_busy, guiOps, reads, faults, codecVars, encVars>>

\* handle_disconnect, lines 251-254: the handle is dropped, then the status
\* callback and the return
hd_none(t) ==
    /\ At(t, "hd_none")
    /\ serial_connection' = None
    /\ th' = Ret(t)
    /\ update_mcu_status(t, is_connected)
    /\ UNCHANGED <<is_connected, serial_open, ports, current_mode, com_port, com_speed,
                   monitoring_active, monitoring_thread, serial_thread, lock, is_flashing,
                   fl_is_flashing, attached, port_busy, guiOps, reads, faults, codecVars, encVars>>

\* monitor_ports, lines 79-87: after the sleep, the loop test, the test of the
\* flags, the scan of KNOWN_DEVICES and the call of auto_connect
m_loop(t) ==
    /\ At(t, "m_loop")
    /\ th' = IF ~monitoring_active THEN Ret(t)
             ELSE IF ~is_connected /\ ~is_flashing /\ FirstMatch # None
             THEN [th EXCEPT ![t].pc = <<"ac_loop", "m_loop">>,
                             ![t].attempt = 0,
                             ![t].com_port = KNOWN_DEVICES[FirstMatch].mode,
                             ![t].mode = KNOWN_DEVICES[FirstMatch].mode]
             ELSE th
    /\ UNCHANGED <<handlerVars, attached, port_busy, mcu_status, guiOps, reads, faults, codecVars, encVars>>

ContinueConnecting_never(t) == FALSE

ContinueConnecting_noLimit(t) == ~is_connected /\ monitoring_active

ContinueConnecting_ignoresStop(t) == th[t].attempt < retry_attempts /\ ~is_connected

\* auto_connect, the loop condition of line 92
ContinueConnecting(t) ==
    th[t].attempt < retry_attempts /\ ~is_connected /\ monitoring_active

\* auto_connect, the loop test of line 92
ac_loop(t) ==
    /\ At(t, "ac_loop")
    /\ th' = IF ContinueConnecting(t) THEN Jump(t, "ac_open") ELSE Jump(t, "ac_exit")
    /\ UNCHANGED <<handlerVars, attached, port_busy, mcu_status, guiOps, reads, faults, codecVars, encVars>>

\* auto_connect, lines 94-103: serial.Serial(...) opens the port and the
\* handle is stored, or it raises (135-140): always on a port that another
\* program holds, and on a fault
ac_open(t) ==
    /\ At(t, "ac_open")
    /\ \/ /\ ~port_busy
          /\ FreePort # None
          /\ ports' = [ports EXCEPT ![FreePort] = [made |-> TRUE, is_open |-> TRUE,
                                                   baudrate |-> 115200, port |-> th[t].com_port]]
          /\ serial_connection' = FreePort
          /\ rx' = <<>>
          /\ th' = Jump(t, "ac_connected")
          /\ UNCHANGED notes
          /\ UNCHANGED faults
       \/ /\ IF port_busy THEN UNCHANGED faults
             ELSE faults < MaxFaults /\ faults' = faults + 1
          /\ Say("Failed to auto-connect")
          /\ th' = Jump(t, "ac_retry")
          /\ UNCHANGED <<ports, serial_connection, rx>>
    /\ UNCHANGED <<is_connected, serial_open, current_mode, com_port, com_speed,
                   monitoring_active, monitoring_thread, serial_thread, lock, is_flashing,
                   fl_is_flashing, attached, port_busy, mcu_status, guiOps, reads, buffer, log, pass, emitted,
                   tx, lastOp>>

NeedsHandshake_always(mode) == TRUE

\* auto_connect, line 115: only a Normal-mode connect negotiates the speed
NeedsHandshake(mode) == mode = "Normal"

\* auto_connect, lines 104-112, after the half second of settling
ac_connected(t) ==
    /\ At(t, "ac_connected")
    /\ is_connected' = TRUE
    /\ serial_open' = TRUE
    /\ com_speed' = 115200
    /\ current_mode' = th[t].mode
    /\ com_port' = th[t].com_port
    /\ Say("Connected")
    /\ th' = IF NeedsHandshake(th[t].mode) THEN Jump(t, "ac_baud_cmd") ELSE Jump(t, "ac_thread")
    /\ UNCHANGED <<serial_connection, ports, monitoring_active, monitoring_thread,
                   serial_thread, lock, is_flashing, fl_is_flashing, attached, port_busy, mcu_status, guiOps, faults,
                   reads, codecVars, tx, lastOp>>

\* request_4mbps_baud_rate -> set_baud_rate(4000000), lines 362-364
ac_baud_cmd(t) ==
    /\ At(t, "ac_baud_cmd")
    /\ BeginWrite(t, SET_BAUD_RATE, BaudPayload(4000000), <<"ac_baud_local">> \o Tail(th[t].pc))
    /\ UNCHANGED <<handlerVars, attached, port_busy, mcu_status, guiOps, reads, faults,
                   codecVars, lastOp>>

handshake_failed_reverts(t) ==
    /\ Say("Failed to switch baud rate")
    /\ is_connected' = FALSE
    /\ serial_open' = FALSE
    /\ th' = Jump(t, "ac_exit")

\* auto_connect, lines 127-128: a failure of the handshake is logged and
\* nothing else; control falls through to line 130
handshake_failed(t) ==
    /\ Say("Failed to switch baud rate")
    /\ UNCHANGED <<is_connected, serial_open>>
    /\ th' = Jump(t, "ac_thread")

\* set_baud_rate, lines 367-373, after the 300 ms, and auto_connect, lines
\* 121-128: the local switch.  On a handle that is gone line 370 skips and
\* line 124 raises; on a live handle the assignment of the rate may raise
\* while the port is reconfigured (the attribute is then already set, and
\* com_speed is set only if it was line 124 and not line 371 that raised)
ac_baud_local(t) ==
    /\ At(t, "ac_baud_local")
    /\ \/ /\ serial_connection = None
          /\ handshake_failed(t)
          /\ UNCHANGED <<ports, com_speed, faults>>
       \/ /\ serial_connection # None
          /\ ports' = [ports EXCEPT ![serial_connection].baudrate = 4000000]
          /\ com_speed' = 4000000
          /\ Say("Switched baud rate to 4 Mbps.")
          /\ th' = Jump(t, "ac_thread")
          /\ UNCHANGED <<is_connected, serial_open, faults>>
       \/ /\ PortIsOpen
          /\ faults < MaxFaults
          /\ faults' = faults + 1
          /\ ports' = [ports EXCEPT ![serial_connection].baudrate = 4000000]
          /\ \E speed \in {com_speed, 4000000} : com_speed' = speed
          /\ handshake_failed(t)
    /\ UNCHANGED <<serial_connection, current_mode, com_port,
                   monitoring_active, monitoring_thread, serial_thread, lock, is_flashing,
                   fl_is_flashing, attached, port_busy, mcu_status, guiOps, reads, codecVars, tx, lastOp>>

\* auto_connect, lines 130-134: the read loop is started and the call returns
ac_thread(t) ==
    /\ At(t, "ac_thread")
    /\ FreeIn(SerIds) # None
    /\ serial_thread' = FreeIn(SerIds)
    /\ th' = [Ret(t) EXCEPT ![FreeIn(SerIds)] = [NoThread EXCEPT !.pc = <<"s_loop">>]]
    /\ update_mcu_status(t, is_connected)
    /\ UNCHANGED <<is_connected, serial_open, serial_connection, ports, current_mode,
                   com_port, com_speed, monitoring_active, monitoring_thread, lock,
                   is_flashing, fl_is_flashing, attached, port_busy, guiOps, reads, faults, codecVars, encVars>>

\* auto_connect, lines 140-142
ac_retry(t) ==
    /\ At(t, "ac_retry")
    /\ th' = [Jump(t, "ac_loop") EXCEPT ![t].attempt = @ + 1]
    /\ UNCHANGED <<handlerVars, attached, port_busy, mcu_status, guiOps, reads, faults, codecVars, encVars>>

\* auto_connect, lines 144-145
ac_exit(t) ==
    /\ At(t, "ac_exit")
    /\ IF ~is_connected THEN Say("Unable to connect") ELSE UNCHANGED notes
    /\ th' = Ret(t)
    /\ UNCHANGED <<handlerVars, attached, port_busy, mcu_status, guiOps, reads, faults, codecVars, tx, lastOp>>

\* serial_communication_thread, the loop test of line 149 (after the sleep of 165)
s_loop(t) ==
    /\ At(t, "s_loop")
    /\ th' = IF monitoring_active /\ is_connected /\ serial_open
             THEN Jump(t, "s_read") ELSE Ret(t)
    /\ UNCHANGED <<handlerVars, attached, port_busy, mcu_status, guiOps, reads, faults, codecVars, encVars>>

OnReadError_continues(t) == [th EXCEPT ![t].pc = <<"hd_flags", "s_loop">>]

\* serial_communication_thread, lines 161-164: handle_disconnect is called and
\* the break leaves the loop, so that the thread ends when the call returns
OnReadError(t) == [th EXCEPT ![t].pc = <<"hd_flags">>]

\* serial_communication_thread, lines 151-155 and 161-164: nothing to read, a
\* chunk read from the port, or an error from the port (conn keeps, for the
\* record, the port object on which the read raised)
s_read(t) ==
    /\ At(t, "s_read")
    /\ \/ /\ th' = Jump(t, "s_loop")
          /\ UNCHANGED <<rx, reads, notes, faults>>
       \/ /\ PortIsOpen
          /\ reads < MaxReads
          /\ \E data \in ThreadChunks :
                /\ th' = [Jump(t, "s_handle") EXCEPT ![t].data = data,
                                                     ![t].conn = serial_connection,
                                                     ![t].off = Len(rx)]
                /\ rx' = rx \o data
          /\ reads' = reads + 1
          /\ UNCHANGED <<notes, faults>>
       \/ /\ PortIsOpen
          /\ faults < MaxFaults
          /\ faults' = faults + 1
          /\ Say("Serial communication error")
          /\ th' = [OnReadError(t) EXCEPT ![t].conn = serial_connection]
          /\ UNCHANGED <<rx, reads>>
    /\ UNCHANGED <<handlerVars, attached, port_busy, mcu_status, guiOps, buffer, log, pass, emitted, tx, lastOp>>

\* serial_communication_thread, line 160: handle_incoming_data, once the lock
\* is free
s_handle(t) ==
    /\ At(t, "s_handle")
    /\ lock = Free
    /\ handle_incoming_data(th[t].data, th[t].conn, th[t].off)
    /\ th' = [Jump(t, "s_loop") EXCEPT ![t].data = <<>>, ![t].conn = None, ![t].off = 0]
    /\ UNCHANGED <<handlerVars, attached, port_busy, mcu_status, guiOps, reads, faults, rx, encVars>>

\* flash_firmware_thread, lines 84-89
f_begin(t) ==
    /\ At(t, "f_begin")
    /\ fl_is_flashing' = TRUE
    /\ is_flashing' = TRUE
    /\ th' = IF is_connected THEN Call(t, "sm_lock", "f_popen") ELSE Jump(t, "f_popen")
    /\ UNCHANGED <<is_connected, serial_open, serial_connection, ports, current_mode,
                   com_port, com_speed, monitoring_active, monitoring_thread, serial_thread,
                   lock, attached, port_busy, mcu_status, guiOps, reads, faults, codecVars, encVars>>

\* flash_firmware_thread, lines 90-128, after the second join, which returns
\* when the thread has ended or the timeout has passed, and the half second: esptool is
\* launched on com_port, or the launch raises (155-157)
f_popen(t) ==
    /\ At(t, "f_popen")
    /\ \/ /\ th' = [Jump(t, "f_wait") EXCEPT ![t].com_port = com_port]
          /\ UNCHANGED <<notes, faults>>
       \/ /\ faults < MaxFaults
          /\ faults' = faults + 1
          /\ th' = Jump(t, "f_finally")
          /\ Say("Flashing error")
    /\ UNCHANGED <<handlerVars, attached, port_busy, mcu_status, guiOps, reads, codecVars, tx, lastOp>>

\* flash_firmware_thread, lines 145-153: esptool exits
f_wait(t) ==
    /\ At(t, "f_wait")
    /\ th' = Jump(t, "f_finally")
    /\ UNCHANGED <<handlerVars, attached, port_busy, mcu_status, guiOps, reads, faults, codecVars, encVars>>

f_finally_keepsHandlerFlag(t) ==
    /\ At(t, "f_finally")
    /\ fl_is_flashing' = FALSE
    /\ th' = Jump(t, "start_mon")
    /\ UNCHANGED <<is_connected, serial_open, serial_connection, ports, current_mode,
                   com_port, com_speed, monitoring_active, monitoring_thread, serial_thread,
                   lock, is_flashing, attached, port_busy, mcu_status, guiOps, reads, faults,
                   codecVars, encVars>>

\* flash_firmware_thread, lines 165-167: the flags are cleared; start_monitoring
\* is the last call of the thread
f_finally(t) ==
    /\ At(t, "f_finally")
    /\ fl_is_flashing' = FALSE
    /\ is_flashing' = FALSE
    /\ th' = Jump(t, "start_mon")
    /\ UNCHANGED <<is_connected, serial_open, serial_connection, ports, current_mode,
                   com_port, com_speed, monitoring_active, monitoring_thread, serial_thread,
                   lock, attached, port_busy, mcu_status, guiOps, reads, faults, codecVars, encVars>>

\* the user presses a flash button (shown while connected): the download or
\* file thread is started, which ends in flash_firmware_thread
handle_flash(t) ==
    /\ At(t, "g_idle")
    /\ guiOps < MaxGuiOps
    /\ is_connected
    /\ FreeIn(FlIds) # None
    /\ th' = [th EXCEPT ![FreeIn(FlIds)] = [NoThread EXCEPT !.pc = <<"f_begin">>]]
    /\ guiOps' = guiOps + 1
    /\ UNCHANGED <<handlerVars, attached, port_busy, mcu_status, reads, faults, codecVars, encVars>>

ValidLogLevel_upTo5(log_level) == 0 <= log_level /\ log_level <= 5

\* the test of line 388: 0 <= log_level <= 4
ValidLogLevel(log_level) == 0 <= log_level /\ log_level <= 4

\* the levels a caller passes: 0 and 4 from the logging control, and two
\* outside the range
LogLevels == {-1, 0, 4, 5}

\* set_device_log_level(log_level), lines 388-397
set_device_log_level(t) ==
    /\ At(t, "g_idle")
    /\ guiOps < MaxGuiOps
    /\ \E log_level \in LogLevels :
          /\ IF ~ValidLogLevel(log_level)
             THEN /\ Say("Invalid log level.")
                  /\ UNCHANGED <<tx, th>>
             ELSE BeginWrite(t, SET_DEV_LOG, <<log_level>>,
                             IF log_level = 0 THEN <<"rac_lock", "g_idle">> ELSE <<"g_idle">>)
          /\ lastOp' = [op |-> "set_device_log_level", log_level |-> log_level,
                        open |-> PortIsOpen, n |-> guiOps + 1]
    /\ guiOps' = guiOps + 1
    /\ UNCHANGED <<handlerVars, attached, port_busy, mcu_status, reads, faults, codecVars>>

\* quit_application (gui.py 1101-1123): once no flash is in progress, the reset
\* command if connected, then stop_monitoring, after which the window closes
quit_application(t) ==
    /\ At(t, "g_idle")
    /\ guiOps < MaxGuiOps
    /\ ~fl_is_flashing
    /\ IF is_connected /\ serial_connection # None
       THEN BeginWrite(t, RESET, <<>>, <<"sm_lock">>)
       ELSE /\ th' = [th EXCEPT ![t].pc = <<"sm_lock">>]
            /\ UNCHANGED <<tx, notes>>
    /\ guiOps' = guiOps + 1
    /\ UNCHANGED <<handlerVars, attached, port_busy, mcu_status, reads, faults, codecVars, lastOp>>

rac_lock_noClose(t) ==
    /\ At(t, "rac_lock")
    /\ lock = Free
    /\ Say("Auto-connect is not currently connected.")
    /\ th' = Ret(t)
    /\ UNCHANGED <<handlerVars, attached, port_busy, mcu_status, guiOps, reads, faults,
                   codecVars, tx, lastOp>>

\* restart_auto_connect, lines 421-424 and 428-429: the lock is taken; when
\* connected it stays held over close_connection and the sleep
rac_lock(t) ==
    /\ At(t, "rac_lock")
    /\ lock = Free
    /\ IF is_connected
       THEN /\ lock' = t
            /\ Say("Restarting auto-connect logic...")
            /\ th' = Call(t, "cc_check", "rac_sleep")
       ELSE /\ lock' = lock
            /\ Say("Auto-connect is not currently connected.")
            /\ th' = Ret(t)
    /\ UNCHANGED <<is_connected, serial_open, serial_connection, ports, current_mode,
                   com_port, com_speed, monitoring_active, monitoring_thread, serial_thread,
                   is_flashing, fl_is_flashing, attached, port_busy, mcu_status, guiOps, reads, faults, codecVars, tx, lastOp>>

rac_sleep_keepsLock(t) ==
    /\ At(t, "rac_sleep")
    /\ Say("Auto-connect logic restarted.")
    /\ th' = Ret(t)
    /\ UNCHANGED <<handlerVars, attached, port_busy, mcu_status, guiOps, reads, faults,
                   codecVars, tx, lastOp>>

\* restart_auto_connect, lines 426-427: after the second of sleep the lock is
\* released
rac_sleep(t) ==
    /\ At(t, "rac_sleep")
    /\ lock' = Free
    /\ Say("Auto-connect logic restarted.")
    /\ th' = Ret(t)
    /\ UNCHANGED <<is_connected, serial_open, serial_connection, ports, current_mode,
                   com_port, com_speed, monitoring_active, monitoring_thread, serial_thread,
                   is_flashing, fl_is_flashing, attached, port_busy, mcu_status, guiOps, reads, faults, codecVars, tx, lastOp>>

\* the state after the constructors: the window thread is about to call
\* start_monitoring (gui.py 118)
Init ==
    /\ InitHandler
    /\ InitHistory
    /\ th = [t \in Tids |-> IF t = GUI THEN [NoThread EXCEPT !.pc = <<"start_mon", "g_idle">>]
                             ELSE NoThread]
    /\ attached \in {{"Normal"}, {"Flash"}, {"Normal", "Flash"}}
    /\ port_busy \in BOOLEAN
    /\ mcu_status = NoStatus

\* the steps of the handler's and the flasher's threads
WorkerStep(t) ==
    \/ start_monitoring(t) \/ sm_lock(t) \/ sm_check(t) \/ sm_join(t) \/ sm_wait(t)
    \/ cc_check(t) \/ cc_close(t) \/ cc_fin(t)
    \/ hd_flags(t) \/ hd_close(t) \/ hd_none(t)
    \/ m_loop(t)
    \/ ac_loop(t) \/ ac_open(t) \/ ac_connected(t) \/ ac_baud_cmd(t) \/ ac_baud_local(t)
    \/ ac_thread(t) \/ ac_retry(t) \/ ac_exit(t)
    \/ s_loop(t) \/ s_read(t) \/ s_handle(t)
    \/ f_begin(t) \/ f_popen(t) \/ f_wait(t) \/ f_finally(t)
    \/ w_write(t)

\* the user's operations and restart_auto_connect, which the window thread runs
GuiStep(t) ==
    \/ handle_flash(t) \/ set_device_log_level(t) \/ quit_application(t)
    \/ rac_lock(t) \/ rac_sleep(t)

Step(t) == WorkerStep(t) \/ GuiStep(t)

Next == \E t \in Tids : Step(t)

Spec == Init /\ [][Next]_vars

\* a handler connected to the device in flash mode, as auto_connect leaves
\* it, and two flash requests made one after the other (gui.py 653-673 and
\* flasher.py 27-76 test nothing before they start a thread): two
\* flash_firmware_thread are about to begin
InitTwoRuns ==
    /\ InitHistory
    /\ is_connected = TRUE /\ serial_open = TRUE /\ serial_connection = 1
    /\ current_mode = "Flash" /\ com_port = "Flash" /\ com_speed = 115200
    /\ monitoring_active = TRUE /\ monitoring_thread = 1 /\ serial_thread = 11
    /\ buffer = <<>> /\ lock = Free /\ is_flashing = FALSE /\ fl_is_flashing = FALSE
    /\ ports = [h \in PortIds |-> IF h = 1
                    THEN [made |-> TRUE, is_open |-> TRUE, baudrate |-> 115200,
                          port |-> "Flash"]
                    ELSE NoPort]
    /\ th = [t \in Tids |-> IF t = 1 THEN [NoThread EXCEPT !.pc = <<"m_loop">>]
                             ELSE IF t = 11 THEN [NoThread EXCEPT !.pc = <<"s_loop">>]
                             ELSE IF t = GUI THEN [NoThread EXCEPT !.pc = <<"g_idle">>]
                             ELSE IF t \in {21, 22} THEN [NoThread EXCEPT !.pc = <<"f_begin">>]
                             ELSE NoThread]
    /\ attached = {"Flash"} /\ port_busy = FALSE
    /\ mcu_status = [text |-> "MCU connected", by |-> 1]

\* a turn of the read loop on a line on which no data arrives (the boot
\* loader of a device in flash mode sends nothing by itself)
s_read_quiet(t) == s_read(t) /\ UNCHANGED reads

\* the steps of the flash runs, of the discovery loop and of the read loops
\* on a flash-mode device (no handshake, no data)
TwoRunsStep(t) ==
    \/ start_monitoring(t) \/ sm_lock(t) \/ sm_check(t) \/ sm_join(t) \/ sm_wait(t)
    \/ cc_check(t) \/ cc_close(t) \/ cc_fin(t)
    \/ hd_flags(t) \/ hd_close(t) \/ hd_none(t)
    \/ m_loop(t)
    \/ ac_loop(t) \/ ac_open(t) \/ ac_connected(t) \/ ac_thread(t) \/ ac_retry(t) \/ ac_exit(t)
    \/ s_loop(t) \/ s_read_quiet(t)
    \/ f_begin(t) \/ f_popen(t) \/ f_wait(t) \/ f_finally(t)

NextTwoRuns == \E t \in Tids : TwoRunsStep(t)

\* two overlapping flash requests, with no further operation by the user
SpecTwoRuns == InitTwoRuns /\ [][NextTwoRuns]_vars

\* the same program with the discovery loop scheduled fairly: a discovery
\* thread that can take a step is not held back for ever
SpecLive == Spec /\ \A m \in MonIds : WF_vars(Step(m))

\* the same program in which the window thread, the one thread that keeps
\* SerialHandler.lock over more than one step (421-427), goes on running
\* while it holds the lock: it is in a sleep or in a close() that returns
SpecLock == Spec /\ WF_vars(Step(GUI) /\ lock = GUI)

----------------------------------------------------------------------------
(* The decoder's claims, checked under SpecCodec *)

\* the frames of the whole stream received so far, decoded in one call
OneCall == parse_uart_frames(rx).frames

\* the bytes of bs that belong to valid UTF-8 (bytes below 0xE0): an ASCII
\* byte, a lead byte C2..DF with the continuation byte after it
IsLead(b) == b >= 194 /\ b <= 223
IsCont(b) == b >= 128 /\ b <= 191
KeptIndex(bs, j) ==
    \/ bs[j] < 128
    \/ IsLead(bs[j]) /\ j < Len(bs) /\ IsCont(bs[j + 1])
    \/ IsCont(bs[j]) /\ j > 1 /\ IsLead(bs[j - 1])
RECURSIVE ValidUpTo(_, _)
ValidUpTo(bs, n) ==
    IF n = 0 THEN <<>>
    ELSE ValidUpTo(bs, n - 1) \o (IF KeptIndex(bs, n) THEN <<bs[n]>> ELSE <<>>)
ValidPart(bs) == ValidUpTo(bs, Len(bs))

HasNoHeader(g) == Find(g, KmHeader, 0) = -1 /\ Find(g, DeadHeader, 0) = -1
IsTextFrame(f) == Len(f) >= 4 /\ Slice(f, 0, 3) = KmHeader /\ Find(f, <<CR>>, 0) = Len(f) - 1
IsBinaryFrame(f) ==
    Len(f) >= 4 /\ Slice(f, 0, 2) = DeadHeader /\ Len(f) = 4 + f[3] + 256 * f[4]

\* C1: whatever the split of the stream into chunks, the frames handed to
\* the log sink are those of the whole stream decoded in a single call, in
\* the same order.
C1_ChunkingPreserved == log = Lines(OneCall)

\* C3: when a parse pass stops on an incomplete frame, the bytes from that
\* frame's header on are still in the receive buffer after the pass, ready
\* for the next chunk to be appended.
C3_PartialRetained ==
    pass.why = "partial" => buffer = Slice(pass.data, pass.stop, Len(pass.data))

\* C4: a pass over a complete binary frame followed by one extra byte emits
\* one frame, whose payload is the L payload bytes, and leaves the extra
\* byte in the receive buffer.
C4_BinaryFrameThenRemainder ==
    LET d == pass.data IN
    (Len(d) >= 5 /\ IsBinaryFrame(Slice(d, 0, Len(d) - 1))) =>
        /\ Len(pass.frames) = 1
        /\ Utf8Encode(pass.frames[1].line) = Slice(d, 4, Len(d) - 1)
        /\ buffer = <<d[Len(d)]>>

\* C5 as stated: every text frame handed to the log sink is exactly the
\* bytes from 'km.' up to and including the first carriage return after it.
C5_TextFrameVerbatim ==
    \A i \in 1..Len(pass.frames) :
        pass.frames[i].kind = "text" =>
            Utf8Encode(pass.frames[i].line)
                = Slice(pass.data, pass.frames[i].at,
                        Find(pass.data, <<CR>>, pass.frames[i].at) + 1)

\* C5 as amended: a 'km.' at the scan position with a carriage return after
\* it is emitted as the bytes from 'km.' up to and including the first
\* carriage return, less the bytes that are not valid UTF-8 (so verbatim
\* when they all are), and the rest of the pass is the scan of what follows
\* that carriage return.
C5_TextFrameDecoded ==
    LET d == pass.data IN
    /\ (Slice(d, 0, 3) = KmHeader /\ Find(d, <<CR>>, 0) # -1) =>
            (pass.frames # <<>> /\ pass.frames[1].at = 0 /\ pass.frames[1].kind = "text")
    /\ \A i \in 1..Len(pass.frames) :
        pass.frames[i].kind = "text" =>
            LET f == pass.frames[i]
                e == Find(d, <<CR>>, f.at)
            IN  /\ Slice(d, f.at, f.at + 3) = KmHeader
                /\ e # -1
                /\ Utf8Encode(f.line) = ValidPart(Slice(d, f.at, e + 1))
                /\ Lines(SubSeq(pass.frames, i + 1, Len(pass.frames)))
                      = Lines(parse_uart_frames(Slice(d, e + 1, Len(d))).frames)

\* C5's case: the pass over "km.move(1,2)\r" has emitted it as it is
C5_Witness == pass.data = SampleText /\ Lines(pass.frames) = <<SampleText>>

\* C6: a pass over garbage holding neither 'km.' nor DE AD, followed at once
\* by one complete frame, emits exactly that frame, and no error is
\* reported.
C6_GarbageThenFrame ==
    LET d == pass.data IN
    \A k \in 0..Len(d) :
        LET g == Slice(d, 0, k)
            f == Slice(d, k, Len(d))
        IN  (HasNoHeader(g) /\ (IsTextFrame(f) \/ IsBinaryFrame(f))) =>
                /\ Len(pass.frames) = 1
                /\ pass.frames[1].at = k
                /\ Utf8Encode(pass.frames[1].line)
                     = ValidPart(IF IsTextFrame(f) THEN f ELSE Slice(f, 4, Len(f)))
                /\ "Error parsing UART frames" \notin notes

\* C6's case: 00 01 then "km.move(1,2)\r" in one pass gave that one frame
C6_Witness == pass.data = <<0, 1>> \o SampleText /\ Lines(pass.frames) = <<SampleText>>

\* C7: every frame that is complete in the bytes received so far has been
\* handed to the log sink.
C7_NoFrameLost ==
    \A i \in 1..Len(OneCall) : \E j \in 1..Len(emitted) : emitted[j].pos = OneCall[i].at

----------------------------------------------------------------------------
(* The encoder's claims, checked under SpecEnc *)

U16LE(n) == <<n % 256, n \div 256>>

\* C9: send_command(opcode, payload) on an open port writes DE AD, the
\* little-endian 16-bit value len(payload) + 1, the opcode, the payload.
C9_SendCommandWire ==
    (lastOp.op = "send_command" /\ lastOp.open /\ lastOp.ok) =>
        /\ Len(tx) = lastOp.before + 1
        /\ tx[Len(tx)].bytes = <<222, 173>> \o U16LE(Len(lastOp.payload) + 1)
                                  \o <<lastOp.command>> \o lastOp.payload

\* C9's case: opcode 0xA7 with payload 04 went out as DE AD 02 00 A7 04
C9_Witness ==
    /\ lastOp.op = "send_command" /\ lastOp.command = 167 /\ lastOp.payload = <<4>>
    /\ tx # <<>> /\ tx[Len(tx)].bytes = <<222, 173, 2, 0, 167, 4>>

\* C10: write_to_serial(data) on an open port writes DE AD, the
\* little-endian 16-bit length of data, then data; on a port that is not
\* open it writes nothing and logs that.
C10_WriteToSerialWire ==
    lastOp.op = "write_to_serial" =>
        LET b == IF lastOp.data.type = "str" THEN Utf8Encode(lastOp.data.v) ELSE lastOp.data.v
        IN  IF lastOp.open
            THEN lastOp.ok => /\ Len(tx) = lastOp.before + 1
                              /\ tx[Len(tx)].bytes = <<222, 173>> \o U16LE(Len(b)) \o b
            ELSE /\ Len(tx) = lastOp.before
                 /\ "Attempted to write but serial is not open." \in notes

\* C10's cases: a write of two bytes on an open port, a write on a closed one
C10_Witness ==
    /\ lastOp.op = "write_to_serial" /\ lastOp.open /\ lastOp.ok
    /\ lastOp.data = [type |-> "bytes", v |-> <<4, 173>>]
    /\ tx # <<>> /\ tx[Len(tx)].bytes = <<222, 173, 2, 0, 4, 173>>

\* C11: set_baud_rate(r) with r outside {115200, 4000000} writes nothing to
\* the port and leaves the port's baud rate and com_speed as they were
C11_BadBaudRejected ==
    (lastOp.op = "set_baud_rate" /\ lastOp.baud_rate \notin {115200, 4000000}) =>
        /\ Len(tx) = lastOp.before
        /\ ports = lastOp.ports
        /\ com_speed = lastOp.com_speed

\* C11's case: set_baud_rate(9600) was called on an open port
C11_Witness ==
    /\ lastOp.op = "set_baud_rate" /\ lastOp.baud_rate = 9600 /\ lastOp.open
    /\ tx = <<>> /\ "Invalid baud rate." \in notes

----------------------------------------------------------------------------
(* The claims about the threads, checked under Spec *)

\* C2: in no reachable state does the handler hold an open handle on the
\* port while the esptool subprocess of the flasher is using that port
C2_NoSharedPort ==
    ~(\E f \in FlIds : /\ At(f, "f_wait")
                        /\ PortIsOpen
                        /\ ports[serial_connection].port = th[f].com_port)

\* C8: of two frames emitted on one connection, the one whose first byte
\* arrived earlier is emitted first
C8_EmittedInWireOrder ==
    \A i, j \in DOMAIN emitted :
        (i < j /\ emitted[i].conn = emitted[j].conn) => emitted[i].pos < emitted[j].pos

\* C12: a call of set_device_log_level with a level outside 0..4 writes
\* nothing to the port, leaves the connection state as it was and does not
\* enter restart_auto_connect
C12_BadLevelRejected ==
    [][(lastOp' # lastOp /\ lastOp'.op = "set_device_log_level"
            /\ (lastOp'.log_level < 0 \/ lastOp'.log_level > 4))
        => /\ tx' = tx
           /\ UNCHANGED <<is_connected, serial_open, serial_connection, ports, current_mode,
                          com_port, com_speed, lock>>
           /\ th' = th]_vars

\* C12's case: set_device_log_level(5) has been called on a connected handler
C12_Witness ==
    /\ lastOp.op = "set_device_log_level" /\ lastOp.log_level = 5 /\ lastOp.open
    /\ is_connected /\ PortIsOpen /\ At(GUI, "g_idle")

\* C13: while devices matching both entries of KNOWN_DEVICES are attached,
\* every call of auto_connect is for the earlier entry (Normal), also after
\* a failed attempt: no thread connects for Flash and no Flash port is opened
C13_EarlierEntryOnly ==
    attached = {"Normal", "Flash"} =>
        /\ \A m \in MonIds : th[m].mode # "Flash" /\ th[m].com_port # "Flash"
        /\ \A h \in PortIds : ports[h].port # "Flash"
        /\ current_mode = "Normal"

\* C13's case: both devices attached, the connect for Normal has failed an
\* attempt and the discovery loop is still in that connect
C13_Witness ==
    /\ attached = {"Normal", "Flash"}
    /\ \E m \in MonIds : At(m, "ac_retry") /\ th[m].mode = "Normal"

\* C14: once monitoring has been stopped, an auto_connect that is sleeping
\* between failed attempts goes from the sleep to the loop test, fails the
\* test, makes no open attempt, and returns normally to the discovery loop;
\* it being the only discovery thread, is_connected is false when it returns
C14_StopEndsRetryLoop ==
    [][\A m \in MonIds :
          /\ (At(m, "ac_retry") /\ th'[m] # th[m]) => Head(th'[m].pc) = "ac_loop"
          /\ (At(m, "ac_loop") /\ ~monitoring_active /\ th'[m] # th[m])
                => Head(th'[m].pc) = "ac_exit"
          /\ (At(m, "ac_exit") /\ th'[m] # th[m]) => th'[m].pc = Tail(th[m].pc)
          /\ (At(m, "ac_exit") /\ th'[m] # th[m] /\ ~monitoring_active
                /\ \A o \in MonIds \ {m} : ~Alive(o))
                => ~is_connected']_vars

\* C14's case: monitoring was stopped during the retries: the loop has ended
\* after a failed attempt, before the attempts were used up
C14_Witness ==
    /\ ~monitoring_active /\ ~is_connected
    /\ \E m \in MonIds : /\ At(m, "ac_exit")
                           /\ th[m].attempt >= 1 /\ th[m].attempt < retry_attempts

\* C15: an open attempt is made only while fewer than retry_attempts have
\* been made in this call of auto_connect; when all of them have failed the
\* call reports it, returns to the discovery loop with is_connected false
\* (it being the only discovery thread), and the loop, while monitoring is
\* active and the device is attached, calls auto_connect afresh on a later tick
C15_BoundedRetries ==
    [][\A m \in MonIds :
          /\ (Head(th'[m].pc) = "ac_open" /\ th'[m] # th[m])
                => th[m].attempt < retry_attempts
          /\ (At(m, "ac_exit") /\ th[m].attempt = retry_attempts /\ th'[m] # th[m]
                /\ \A o \in MonIds \ {m} : ~Alive(o))
                => /\ th'[m].pc = <<"m_loop">>
                   /\ "Unable to connect" \in notes'
                   /\ ~is_connected'
          /\ (At(m, "m_loop") /\ th'[m] # th[m] /\ monitoring_active /\ ~is_connected
                /\ ~is_flashing /\ attached # {})
                => /\ th'[m].pc = <<"ac_loop", "m_loop">>
                   /\ th'[m].attempt = 0]_vars

\* C15's case: all retry_attempts opens of one call have failed and the call
\* is about to report it
C15_Witness ==
    \E m \in MonIds : /\ At(m, "ac_exit") /\ th[m].attempt = retry_attempts
                       /\ ~is_connected /\ monitoring_active

\* the frame of SET_BAUD_RATE for 4,000,000 baud as send_command puts it on
\* the wire: DE AD, size 5 little-endian, the opcode, the four payload bytes
SetBaud4MFrame == <<222, 173, 5, 0, SET_BAUD_RATE, 0, 9, 61, 0>>

\* the connect of discovery thread m has set the state and finished whatever
\* handshake its mode calls for; the connection it made is still up and no
\* other discovery thread runs beside it
ConnectEnds(m, mode) ==
    /\ At(m, "ac_thread")
    /\ th[m].mode = mode
    /\ is_connected
    /\ PortIsOpen
    /\ \A o \in MonIds \ {m} : ~Alive(o)

\* C16: at the end of a Normal-mode connect during which no port operation
\* raised, the SET_BAUD_RATE command for 4,000,000 baud is on the wire of the
\* connected port, it was written while the local port was still at 115200,
\* the local port is now at 4,000,000 and com_speed is 4000000.
C16_HandshakeOrder ==
    \A m \in MonIds :
        (/\ ConnectEnds(m, "Normal")
         /\ "Error while writing to serial" \notin notes
         /\ "Failed to switch baud rate" \notin notes)
        => /\ com_speed = 4000000
           /\ ports[serial_connection].baudrate = 4000000
           /\ \E i \in 1..Len(tx) : /\ tx[i].conn = serial_connection
                                     /\ tx[i].bytes = SetBaud4MFrame
                                     /\ tx[i].baud = 115200

C16_Witness ==
    \E m \in MonIds :
        /\ ConnectEnds(m, "Normal")
        /\ notes \cap {"Error while writing to serial", "Failed to switch baud rate"} = {}
        /\ com_speed = 4000000
        /\ tx # <<>> /\ tx[Len(tx)].bytes = SetBaud4MFrame /\ tx[Len(tx)].baud = 115200

\* C17: at the end of a Flash-mode connect nothing carrying the opcode
\* SET_BAUD_RATE has been written to the connected port, the local port is at
\* 115200, com_speed is 115200 and current_mode is "Flash".
C17_FlashNoHandshake ==
    \A m \in MonIds :
        ConnectEnds(m, "Flash")
        => /\ com_speed = 115200
           /\ current_mode = "Flash"
           /\ ports[serial_connection].baudrate = 115200
           /\ \A i \in 1..Len(tx) :
                 tx[i].conn = serial_connection => tx[i].bytes[5] # SET_BAUD_RATE

C17_Witness ==
    \E m \in MonIds : /\ ConnectEnds(m, "Flash")
                       /\ current_mode = "Flash" /\ com_speed = 115200
                       /\ ports[serial_connection].port = "Flash"

\* C18: the step of a discovery thread that ends the handshake, by success
\* or by the logged failure, leaves is_connected and serial_open as they were
\* and goes on to line 130; the step after it starts a new read loop and
\* invokes the status callback, again without touching the two flags.
C18_HandshakeFailureKeepsConnection ==
    [][\A m \in MonIds :
          /\ (At(m, "ac_baud_local") /\ th'[m] # th[m])
                => /\ Head(th'[m].pc) = "ac_thread"
                   /\ UNCHANGED <<is_connected, serial_open>>
          /\ (At(m, "ac_thread") /\ th'[m] # th[m])
                => /\ serial_thread' \in SerIds
                   /\ ~Alive(serial_thread')
                   /\ th'[serial_thread'].pc = <<"s_loop">>
                   /\ mcu_status'.by = m
                   /\ UNCHANGED <<is_connected, serial_open>>]_vars

C18_Witness ==
    \E m \in MonIds : /\ At(m, "m_loop")
                       /\ "Failed to switch baud rate" \in notes
                       /\ is_connected /\ serial_open /\ PortIsOpen
                       /\ mcu_status = [text |-> "MCU connected", by |-> m]
                       /\ serial_thread \in SerIds /\ Alive(serial_thread)

\* read loop t is inside the handle_disconnect it called after an exception
Disconnecting(t) == Head(th[t].pc) \in {"hd_flags", "hd_close", "hd_none"}

\* C19: when a read of read loop t raises, nothing is read in that step and
\* the loop is left for handle_disconnect with no way back; its steps clear
\* is_connected and serial_open, close the handle if it is open (unless
\* close() itself raises, which is logged), drop it and invoke the status
\* callback, after which the thread ends; from the exception on the thread
\* never reaches the loop or a read again.
C19_ReadErrorDisconnects ==
    [][\A t \in SerIds :
          /\ (At(t, "s_read") /\ Head(th'[t].pc) = "hd_flags")
                => /\ th'[t].pc = <<"hd_flags">>
                   /\ rx' = rx /\ reads' = reads
          /\ (At(t, "hd_flags") /\ th'[t] # th[t])
                => /\ ~is_connected' /\ ~serial_open'
                   /\ Head(th'[t].pc) = "hd_close"
          /\ (At(t, "hd_close") /\ th'[t] # th[t] /\ serial_connection # None)
                => /\ ~ports'[serial_connection].is_open \/ faults' = faults + 1
                   /\ Head(th'[t].pc) = "hd_none"
          /\ (At(t, "hd_close") /\ th'[t] # th[t] /\ serial_connection = None)
                => /\ mcu_status'.by = t
                   /\ th'[t].pc = Dead
          /\ (At(t, "hd_none") /\ th'[t] # th[t])
                => /\ serial_connection' = None
                   /\ mcu_status'.by = t
                   /\ th'[t].pc = Dead
          /\ Disconnecting(t)
                => Head(th'[t].pc) \in {"hd_flags", "hd_close", "hd_none", "done"}]_vars

C19_Witness ==
    \E t \in SerIds : /\ th[t].pc = Dead
                       /\ mcu_status = [text |-> "MCU disconnected", by |-> t]
                       /\ faults = 1
                       /\ ~is_connected /\ ~serial_open /\ serial_connection = None
                       /\ \A p \in PortIds : ~ports[p].is_open

\* C20: after a write_to_serial or send_command on the open port whose write
\* raised, the connection is torn down: is_connected is false and the handle
\* is closed and dropped.  (Checked under SpecEnc.)
C20_WriteErrorDisconnects ==
    (/\ lastOp.op \in {"write_to_serial", "send_command"}
     /\ lastOp.open
     /\ ~lastOp.ok)
    => /\ ~is_connected
       /\ ~serial_open
       /\ serial_connection = None

\* the port objects that are open
OpenPorts == {h \in PortIds : ports[h].is_open}

\* C24: in every reachable state at most one port object is open.
C24_OneOpenPort == Cardinality(OpenPorts) <= 1

\* C27: every step in which a discovery thread attempts to open the port,
\* retries included, is taken in a state where the flashing flag is false.
C27_NoOpenWhileFlashing ==
    [][\A m \in MonIds : (At(m, "ac_open") /\ th'[m] # th[m]) => ~is_flashing]_vars

\* C28: the step in which the flasher launches the firmware-write
\* subprocess is taken with monitoring_active false and with no discovery
\* loop and no read loop running.
C28_StoppedBeforeFlash ==
    [][\A f \in FlIds :
          (At(f, "f_popen") /\ Head(th'[f].pc) = "f_wait")
              => /\ ~monitoring_active
                 /\ \A t \in MonIds \cup SerIds : ~Alive(t)]_vars

\* C29: every step that changes one of the six fields of the connection
\* state is taken by a thread that holds SerialHandler.lock.
C29_StateWrittenUnderLock ==
    [][\/ UNCHANGED <<is_connected, serial_open, serial_connection, current_mode,
                      com_port, com_speed>>
       \/ \E t \in Tids : lock = t /\ th'[t] # th[t]]_vars

\* the threads that have passed the test of the port and are in the write
Writers == {t \in Tids : At(t, "w_write")}

\* C30: at most one thread at a time is inside a write to the port.
C30_WritesSerialized == Cardinality(Writers) <= 1

\* C23: when a call of stop_monitoring that cleared the active flag returns
\* and no failure to stop has been logged, no discovery loop and no read
\* loop is running.
C23_StopLeavesNothingRunning ==
    [][\A t \in Tids :
          (/\ At(t, "sm_join") \/ At(t, "sm_wait")
           /\ th'[t] # th[t]
           /\ Head(th'[t].pc) # "sm_wait"
           /\ "Failed to fully stop monitoring thread." \notin notes')
          => \A x \in MonIds \cup SerIds : th'[x].pc \in {Unborn, Dead}]_vars

\* thread t has a label of ls somewhere on its stack of program points
Within(t, ls) == \E i \in DOMAIN th[t].pc : th[t].pc[i] \in ls

\* thread t has changed is_connected (106, 241) and has not yet reached the
\* call of update_mcu_status that follows the change (133, 254)
OwesCallback(t) ==
    Within(t, {"ac_baud_cmd", "ac_baud_local", "ac_thread", "hd_close", "hd_none"})

\* thread t calls update_mcu_status in this step
CallsBack(t) ==
    mcu_status' = [text |-> IF is_connected' THEN "MCU connected" ELSE "MCU disconnected",
                   by |-> t]

\* C22: a step of auto_connect, handle_disconnect or close_connection that
\* changes is_connected either calls update_mcu_status itself, after the
\* change, or leaves its thread on the way to that call; on that way every
\* step of the thread either stays on it or makes the call.
C22_CallbackAfterChange ==
    [][\A t \in Tids :
          /\ (is_connected' # is_connected /\ th'[t] # th[t] /\ Alive(t))
                => CallsBack(t) \/ OwesCallback(t)'
          /\ (OwesCallback(t) /\ th'[t] # th[t])
                => CallsBack(t) \/ OwesCallback(t)']_vars

C22_Witness ==
    /\ is_connected
    /\ mcu_status.text = "MCU connected" /\ mcu_status.by \in MonIds
    /\ \E h \in PortIds : ports[h].made /\ ~ports[h].is_open
    /\ \A t \in Tids : ~OwesCallback(t)

\* the program points of handle_disconnect and of close_connection
TeardownPoints == {"hd_flags", "hd_close", "hd_none", "cc_check", "cc_close", "cc_fin"}

\* a connect is under way, or one has been completed since read loop t was
\* started
ConnectBeside(t) ==
    \/ serial_thread # t
    \/ \E m \in MonIds :
          Within(m, {"ac_connected", "ac_baud_cmd", "ac_baud_local", "ac_thread"})

CanReconnect ==
    /\ monitoring_active
    /\ ~is_flashing
    /\ attached # {}
    /\ ~port_busy
    /\ FreePort # None

\* C21: under fair scheduling the handler does not stay disconnected for
\* ever while the conditions for reconnecting hold: whenever is_connected is
\* false and they hold, later is_connected is true or one of them has ceased
\* to hold.  (Checked under SpecLive.)
C21_ReconnectsEventually ==
    (~is_connected /\ CanReconnect) ~> (is_connected \/ ~CanReconnect)

\* C21's case: a disconnect has happened (a port was opened and closed
\* again) and the handler is connected anew through another port object
C21_Witness ==
    /\ is_connected /\ PortIsOpen /\ monitoring_active /\ ~is_flashing
    /\ \E h \in PortIds : ports[h].made /\ ~ports[h].is_open /\ h # serial_connection
    /\ \E m \in MonIds : At(m, "m_loop")

\* a run of flash_firmware_thread has ended
FlashRunEnded == \E f \in FlIds : th[f].pc = Dead

RunningMon == {m \in MonIds : Alive(m)}
RunningSer == {s \in SerIds : Alive(s)}

\* C31: in every reachable state at most one discovery-loop thread and at
\* most one read-loop thread is running.
C31_OneWorkerEach == Cardinality(RunningMon) <= 1 /\ Cardinality(RunningSer) <= 1

\* C32: after every parse pass the receive buffer holds no complete frame:
\* a scan of what is left in it emits nothing.  (Checked under SpecCodec.)
C32_NoCompleteFrameLeft == parse_uart_frames(buffer).frames = <<>>

\* C32's case: a pass has emitted a frame and stopped before the end of its
\* data, or has stopped on an incomplete frame
C32_Witness ==
    /\ pass.data # <<>>
    /\ buffer = <<>>
    /\ \/ pass.frames # <<>> /\ pass.stop < Len(pass.data)
       \/ pass.why = "partial"

\* the frame of set_device_log_level(level): DE AD 02 00 A7 level
SetDevLogFrame(level) == <<222, 173, 2, 0, SET_DEV_LOG, level>>

\* the window thread is in restart_auto_connect, called by
\* set_device_log_level(0)
InRestart == Within(GUI, {"rac_lock", "rac_sleep"})

\* the window thread is in the write of set_device_log_level
InLogLevelWrite ==
    /\ At(GUI, "w_write")
    /\ Len(th[GUI].data) = 2 /\ Head(th[GUI].data) = SET_DEV_LOG

\* C33: set_device_log_level with a level of 0..4 on an open port goes on to
\* write the SET_DEV_LOG command with the level as payload (the frame
\* DE AD 02 00 A7 level goes out unless the write raises or the port is
\* closed meanwhile).  After level 0 restart_auto_connect follows: if
\* is_connected it takes the lock and runs close_connection, which ends with
\* is_connected and serial_open false and no handle; none of these steps
\* changes monitoring_active, and once the call has returned a handler that
\* is disconnected becomes connected again under fair scheduling of the
\* discovery loop, unless the conditions for reconnecting cease to hold.
\* After a level of 1..4 the call returns after the write, and its steps
\* leave the connection as it is.  (Checked under SpecLive.)
C33_LogLevelZeroRestarts ==
    /\ [][/\ (/\ At(GUI, "g_idle") /\ lastOp' # lastOp
               /\ ValidLogLevel(lastOp'.log_level) /\ PortIsOpen)
              => /\ th'[GUI].data = <<SET_DEV_LOG, lastOp'.log_level>>
                 /\ th'[GUI].pc = <<"w_write">> \o
                        (IF lastOp'.log_level = 0 THEN <<"rac_lock", "g_idle">>
                         ELSE <<"g_idle">>)
                 /\ UNCHANGED <<is_connected, serial_connection, ports, monitoring_active>>
          /\ (InLogLevelWrite /\ th'[GUI] # th[GUI])
              => /\ th'[GUI].pc = Tail(th[GUI].pc)
                 /\ UNCHANGED <<is_connected, serial_connection, ports, monitoring_active>>
                 /\ (PortIsOpen /\ faults' = faults)
                       => /\ Len(tx') = Len(tx) + 1
                          /\ tx'[Len(tx')].bytes = SetDevLogFrame(th[GUI].data[2])
                          /\ tx'[Len(tx')].conn = serial_connection
          /\ (At(GUI, "rac_lock") /\ th'[GUI] # th[GUI])
              => IF is_connected
                 THEN lock' = GUI /\ th'[GUI].pc = <<"cc_check", "rac_sleep", "g_idle">>
                 ELSE lock' = Free /\ th'[GUI].pc = <<"g_idle">>
          /\ (InRestart /\ At(GUI, "cc_close") /\ th'[GUI] # th[GUI]
                /\ serial_connection # None /\ faults' = faults)
              => ~ports'[serial_connection].is_open
          /\ (InRestart /\ At(GUI, "cc_fin") /\ th'[GUI] # th[GUI])
              => /\ ~is_connected' /\ ~serial_open' /\ serial_connection' = None
                 /\ th'[GUI].pc = <<"rac_sleep", "g_idle">>
          /\ (At(GUI, "rac_sleep") /\ th'[GUI] # th[GUI])
              => lock' = Free /\ th'[GUI].pc = <<"g_idle">>
          /\ (InRestart /\ th'[GUI] # th[GUI]) => UNCHANGED monitoring_active]_vars
    /\ (/\ lastOp.op = "set_device_log_level" /\ lastOp.log_level = 0
        /\ th[GUI].pc = <<"g_idle">> /\ ~is_connected /\ CanReconnect)
          ~> (is_connected \/ ~CanReconnect)

\* C33's case: level 0 was set on a connected handler, the frame went out,
\* the connection was closed by the restart (nothing has failed) and the
\* discovery loop has connected again through a new port object
C33_Witness ==
    /\ lastOp.op = "set_device_log_level" /\ lastOp.log_level = 0 /\ lastOp.open
    /\ th[GUI].pc = <<"g_idle">>
    /\ \E i \in DOMAIN tx : tx[i].bytes = SetDevLogFrame(0)
    /\ faults = 0
    /\ \E h \in PortIds : ports[h].made /\ ~ports[h].is_open
    /\ is_connected /\ PortIsOpen /\ monitoring_active

\* a call of stop_monitoring is under way in thread t
Stopping(t) == Within(t, {"sm_lock", "sm_check", "sm_join", "sm_wait"})

\* monitoring has been stopped, the call of stop_monitoring has returned and
\* every discovery loop and read loop has ended
StoppedAndAtRest ==
    /\ ~monitoring_active
    /\ \E m \in MonIds : th[m].pc = Dead
    /\ \A t \in Tids : ~Stopping(t)
    /\ \A t \in MonIds \cup SerIds : ~Alive(t)

\* C34: once stop_monitoring has returned and the handler's threads have
\* ended, is_connected is false and no port object is open.
C34_StoppedMeansClosed == StoppedAndAtRest => ~is_connected /\ OpenPorts = {}

\* read loop t is in handle_disconnect
InDisconnect(t) == Head(th[t].pc) \in {"hd_flags", "hd_close", "hd_none"}

\* C35: a step of handle_disconnect, run by a read loop after a read on port
\* object conn raised, closes no port object other than conn, drops the
\* handle only if the handle is conn, and clears is_connected only while the
\* handle is conn.
C35_DisconnectOwnConnectionOnly ==
    [][\A t \in SerIds :
          (InDisconnect(t) /\ th'[t] # th[t])
          => /\ \A h \in PortIds \ {th[t].conn} : ports'[h].is_open = ports[h].is_open
             /\ serial_connection' # serial_connection => serial_connection = th[t].conn
             /\ (is_connected /\ ~is_connected') => serial_connection = th[t].conn]_vars

\* the program points of auto_connect
ConnectPoints == {"ac_loop", "ac_open", "ac_connected", "ac_baud_cmd", "ac_baud_local",
                  "ac_thread", "ac_retry", "ac_exit"}

\* no thread is inside auto_connect, handle_disconnect or close_connection
NoConnectOrTeardown == \A t \in Tids : ~Within(t, ConnectPoints \cup TeardownPoints)

\* C36: whenever no connect and no teardown is in progress, is_connected and
\* serial_open are equal, and if they are true serial_connection is a port
\* object that is open.
C36_FlagsAgreeWithHandle ==
    NoConnectOrTeardown => /\ is_connected = serial_open
                           /\ is_connected => PortIsOpen

\* flasher thread f has set the flags (84-85) and has not yet cleared them
\* in its finally clause (165-166)
MidFlash(f) == Within(f, {"f_popen", "f_wait", "f_finally"})

\* C37: the handler's flashing flag is true whenever some flasher thread
\* is between setting the flag and the end of its finally clause, two
\* overlapping runs included.  (Checked under SpecTwoRuns.)
C37_FlagCoversEveryRun == (\E f \in FlIds : MidFlash(f)) => is_flashing

\* the program points whose next step takes SerialHandler.lock (47, 59, 228,
\* 421)
AcquirePoints == {"start_mon", "sm_lock", "s_handle", "rac_lock"}

\* C38: a thread that holds the lock is inside restart_auto_connect, in
\* close_connection or the sleep after it, and at no point that takes the
\* lock; the lock is taken only when it is free, changed only by the thread
\* that takes or holds it, and a holder's step keeps it or frees it; and a
\* lock that is held is free again later.  (Checked under SpecLock.)
C38_LockNoDeadlock ==
    /\ [](\A t \in Tids :
            lock = t => /\ Alive(t)
                        /\ \A i \in DOMAIN th[t].pc : th[t].pc[i] \notin AcquirePoints
                        /\ Head(th[t].pc) \in {"cc_check", "cc_close", "cc_fin", "rac_sleep"})
    /\ [][\A t \in Tids :
            /\ (lock # t /\ lock' = t) => lock = Free /\ At(t, "rac_lock") /\ th'[t] # th[t]
            /\ (lock = t /\ lock' # t) => lock' = Free /\ At(t, "rac_sleep") /\ th'[t] # th[t]
            /\ (Head(th[t].pc) \in AcquirePoints /\ th'[t] # th[t]) => lock = Free]_vars
    /\ (lock # Free) ~> (lock = Free)

\* C38's case: the window thread holds the lock in close_connection while a
\* read loop waits for it with a chunk in hand
C38_Witness ==
    /\ lock = GUI /\ At(GUI, "cc_close")
    /\ \E s \in SerIds : At(s, "s_handle")

\* C39: on the buffer of every parse pass, an iteration of the loop of
\* parse_uart_frames at any index below the length breaks or ends with a
\* larger index; the loop makes at most len(data) iterations and stops
\* where the pass stopped.  (Checked under SpecCodec.)
C39_ScanTerminates ==
    LET data == pass.data
        n == Len(data)
    IN  /\ \A index \in 0..(n - 1) :
              NextIndex(data, index) = Break \/ NextIndex(data, index) > index
        /\ Iterations(data, 0, n + 1) <= n
        /\ LoopStop(data, 0, n + 1) = pass.stop

\* C39's case: a pass whose loop skipped bytes in one iteration and emitted
\* a frame in the next
C39_Witness ==
    /\ pass.frames # <<>>
    /\ pass.frames[1].at > 0
    /\ Iterations(pass.data, 0, Len(pass.data) + 1) >= 2

\* the last call was a write_to_serial on the open port whose write returned
WroteFrame == lastOp.op = "write_to_serial" /\ lastOp.open /\ lastOp.ok /\ tx # <<>>

\* what parse_uart_frames makes of the bytes of the last write, as one buffer
RoundTrip == parse_uart_frames(tx[Len(tx)].bytes)

====
